---- MODULE Spec2Model ----
(***************************************************************************)
(* The OCR analyzer: the OCRAnalyzer coordinator component (its React      *)
(* state, its four asynchronous stage handlers and the controls that       *)
(* invoke them), the browser-local history store, and the three server     *)
(* functions detectDocumentType / summarizeDocument / extractDocumentData. *)
(*                                                                         *)
(* A handler is an async function: everything up to its first await runs   *)
(* in the click event, and each continuation after an await runs as one    *)
(* uninterrupted step when the remote call settles.  A handler reads       *)
(* inputText, results and history from the render in which it was invoked  *)
(* (its closure), so each call in flight carries those captured values.    *)
(***************************************************************************)
EXTENDS Integers, Sequences, FiniteSets, TLC

VARIABLES
    inputText,          \* useState("")
    isDetectingType,    \* useState(false)
    isSummarizing,      \* useState(false)
    isExtractingData,   \* useState(false)
    results,            \* useState<AnalysisResults | null>(null)
    error,              \* useState<string | null>(null)
    history,            \* useState<{text, timestamp}[]>([])
    activeTab,          \* useState("input")
    storage,            \* localStorage item under STORAGE_KEY
    calls,              \* handler invocations suspended at an await
    now,                \* the clock read by Date.now()
    lastEvent,          \* the operation performed by the last step
    runs,               \* handler runs started so far that issued a remote call
    srvCall,            \* the last server function call and what it did
    detected            \* the category returned by the last detection that resolved

vars == <<inputText, isDetectingType, isSummarizing, isExtractingData, results,
          error, history, activeTab, storage, calls, now, lastEvent, runs, srvCall,
          detected>>

clientVars == <<inputText, isDetectingType, isSummarizing, isExtractingData,
                results, error, history, activeTab, storage, calls, now, lastEvent, runs,
                detected>>

----------------------------------------------------------------------------
(* Bounds of the model *)

\* Handler runs that issue a remote call, over the life of the model
MaxRuns == 2

\* When the handlers are invoked directly (SpecHandlers): the runs that issue
\* a remote call, and the handlers that may be suspended at the same time
MaxDirectRuns == 1

MaxCalls == 1

----------------------------------------------------------------------------
(* Optional values: null / undefined is None, a value x is Some(x) *)

None == {}

Some(x) == {x}

The(o) == CHOOSE x \in o : TRUE

Min(a, b) == IF a < b THEN a ELSE b

----------------------------------------------------------------------------
(* Texts: sequences of characters *)

TruncLen == 100

HistoryLimit == 5

Whitespace == {" "}

Ellipsis == <<".", ".", ".">>

EmptyText == << >>

BlankText == <<" ", " ">>

ShortText == <<"R", "1">>

LongText == [i \in 1..(TruncLen + 1) |-> "x"]

HundredText == [i \in 1..TruncLen |-> "x"]

\* Texts around the truncation length
SubmittedTexts == {ShortText, HundredText, LongText}

\* Mutant: the check written as !inputText, without trim()
IsBlankWithoutTrim(t) == t = EmptyText

\* String.prototype.trim() yields "" exactly when every character is whitespace.
IsBlank(t) == \A i \in 1..Len(t) : t[i] \in Whitespace

\* String.prototype.substring(0, n)
Substring0(t, n) == SubSeq(t, 1, Min(Len(t), n))

\* Mutant: the marker added from 100 characters on, inputText.length >= 100
HistoryTextOffByOne(t) ==
    Substring0(t, TruncLen) \o (IF Len(t) >= TruncLen THEN Ellipsis ELSE << >>)

\* inputText.substring(0, 100) + (inputText.length > 100 ? "..." : "")
HistoryText(t) == Substring0(t, TruncLen) \o (IF Len(t) > TruncLen THEN Ellipsis ELSE << >>)

OtherText == <<"I", "7">>

\* What the user puts into the text area
TypedTexts == {EmptyText, BlankText, ShortText}

----------------------------------------------------------------------------
(* lib/types.ts and lib/text-analysis.ts: schemas, chains, server functions *)

\* DocumentTypeSchema.documentType: z.enum([...])
Categories == {"invoice", "deliveryNote", "receipt"}

\* documentType strings a caller of the server functions may pass.
DocumentTypeInputs == Categories \cup {"Invoice", "delivery note", ""}

NoChain == "none"

\* z.literal(...) of the documentType field of each record schema
SchemaDocumentType(schema) ==
    CASE schema = "InvoiceSchema" -> "invoice"
      [] schema = "DeliveryNoteSchema" -> "deliveryNote"
      [] schema = "ReceiptSchema" -> "receipt"

\* Mutant: the receipt chain built from a copy of the invoice chain's lines
ChainSchemaCopied(chain) ==
    CASE chain = "invoiceExtractionChain" -> "InvoiceSchema"
      [] chain = "deliveryNoteExtractionChain" -> "DeliveryNoteSchema"
      [] chain = "receiptExtractionChain" -> "InvoiceSchema"

\* model.withStructuredOutput(<schema>) of each extraction chain
ChainSchema(chain) ==
    CASE chain = "invoiceExtractionChain" -> "InvoiceSchema"
      [] chain = "deliveryNoteExtractionChain" -> "DeliveryNoteSchema"
      [] chain = "receiptExtractionChain" -> "ReceiptSchema"

\* Mutant: the default arm falls back to the invoice chain
ExtractionChainForWithFallback(documentType) ==
    CASE documentType = "deliveryNote" -> "deliveryNoteExtractionChain"
      [] documentType = "receipt" -> "receiptExtractionChain"
      [] OTHER -> "invoiceExtractionChain"

\* switch (documentType) of extractDocumentData; NoChain is the default arm
ExtractionChainFor(documentType) ==
    CASE documentType = "invoice" -> "invoiceExtractionChain"
      [] documentType = "deliveryNote" -> "deliveryNoteExtractionChain"
      [] documentType = "receipt" -> "receiptExtractionChain"
      [] OTHER -> NoChain

\* A settled call: ok with a value, or thrown with an error.
Resolved(v) == [ok |-> TRUE, value |-> Some(v), err |-> "none"]

Thrown(e) == [ok |-> FALSE, value |-> None, err |-> e]

\* detectDocumentType(ocrText): the chain answers with a value of
\* DocumentTypeSchema, or the invocation throws and the error is rethrown.
DetectDocumentType(ocrText) ==
    [invoked |-> <<"documentTypeDetectionChain">>,
     outcomes |-> {Resolved([documentType |-> c, text |-> ocrText]) : c \in Categories}
                  \cup {Thrown("remote")}]

\* summarizeDocument(ocrText, documentType): summaryResult.content, or rethrow.
SummarizeDocument(ocrText, documentType) ==
    [invoked |-> <<"documentSummaryChain">>,
     outcomes |-> {Resolved([documentType |-> documentType, text |-> ocrText]),
                   Thrown("remote")}]

\* extractDocumentData(ocrText, documentType): the chain selected by the
\* switch answers with a value of its schema or throws; the default arm
\* throws without invoking a chain.
ExtractDocumentData(ocrText, documentType) ==
    LET chain == ExtractionChainFor(documentType) IN
    IF chain = NoChain
    THEN [invoked |-> << >>, outcomes |-> {Thrown("Unsupported document type")}]
    ELSE [invoked |-> <<chain>>,
          outcomes |-> {Resolved([documentType |-> SchemaDocumentType(ChainSchema(chain)),
                                  text |-> ocrText]),
                        Thrown("remote")}]

----------------------------------------------------------------------------
(* The component's data *)

MsgEnterText == "Please enter some text to analyze"

MsgDetectFirst == "Please detect document type first"

MsgDetection == "An error occurred during document type detection. Please try again."

MsgSummarization == "An error occurred during document summarization. Please try again."

MsgExtraction == "An error occurred during data extraction. Please try again."

MsgProcessing == "An error occurred during document processing. Please try again."

\* The fields of an AnalysisResults object that has none of them
EmptyResults == [documentType |-> None, summary |-> None, extractedData |-> None]

\* { ...r }: spreading null or undefined contributes no field
Spread(r) == IF r = None THEN EmptyResults ELSE The(r)

\* !results || !results.documentType
NoDocumentType(r) == IF r = None THEN TRUE ELSE The(r).documentType = None

Loading == isDetectingType \/ isSummarizing \/ isExtractingData

\* Array.prototype.slice(0, n)
Slice0(s, n) == SubSeq(s, 1, Min(Len(s), n))

\* Mutant: the slice bound off by one, slice(0, 6)
NewHistoryKeepsSix(text, t, h) ==
    Slice0(<<[text |-> HistoryText(text), timestamp |-> t]>> \o h, HistoryLimit + 1)

\* [{ text: ..., timestamp: Date.now() }, ...history].slice(0, 5)
NewHistory(text, t, h) ==
    Slice0(<<[text |-> HistoryText(text), timestamp |-> t]>> \o h, HistoryLimit)

\* JSON.stringify(history): an array of objects, written as a tuple of pairs
JSONStringify(h) == [i \in 1..Len(h) |-> <<h[i].text, h[i].timestamp>>]

\* JSON.parse(savedHistory)
JSONParse(j) == [i \in 1..Len(j) |-> [text |-> j[i][1], timestamp |-> j[i][2]]]

\* The save effect, run after a render in which history changed:
\* if (history.length > 0) localStorage.setItem(STORAGE_KEY, JSON.stringify(history))
SaveEffect(h, old) == IF Len(h) > 0 THEN Some(JSONStringify(h)) ELSE old

\* The load effect on mount: getItem, and setHistory(JSON.parse(...)) if truthy
LoadEffect(item) == IF item = None THEN << >> ELSE JSONParse(The(item))

RemoveAt(s, i) == SubSeq(s, 1, i - 1) \o SubSeq(s, i + 1, Len(s))

Event(op, handler, stage) == [op |-> op, handler |-> handler, stage |-> stage]

\* A handler suspended at an await, with the values its closure holds
Call(handler, stage, docType) ==
    [handler |-> handler, stage |-> stage, text |-> inputText,
     cResults |-> results, cHistory |-> history, docType |-> docType]

\* What localStorage may hold when the page is opened: nothing, or a list
\* written by an earlier visit (at most HistoryLimit entries, newest first).
StoredHistory ==
    [i \in 1..HistoryLimit |-> [text |-> OtherText, timestamp |-> 0 - i]]

InitialStorage == {None, Some(JSONStringify(StoredHistory))}

----------------------------------------------------------------------------
(* Initial state: the component mounted and its load effect run *)

NoServerCall == [fn |-> "none", text |-> EmptyText, documentType |-> "",
                 invoked |-> << >>, result |-> Thrown("none")]

Mounted(item) ==
    /\ inputText = EmptyText
    /\ isDetectingType = FALSE
    /\ isSummarizing = FALSE
    /\ isExtractingData = FALSE
    /\ results = None
    /\ error = None
    /\ history = LoadEffect(item)
    /\ activeTab = "input"
    /\ storage = item
    /\ calls = << >>

Init ==
    /\ \E item \in InitialStorage : Mounted(item)
    /\ now = 0
    /\ runs = 0
    /\ lastEvent = Event("mount", "none", "none")
    /\ srvCall = NoServerCall
    /\ detected = None

----------------------------------------------------------------------------
(* The handlers.  Each is the function's code up to its first await. *)

HandleDetectDocumentType ==
    /\ IF IsBlank(inputText)
       THEN /\ error' = Some(MsgEnterText)
            /\ UNCHANGED <<isDetectingType, calls, runs>>
       ELSE /\ error' = None
            /\ runs' = runs + 1
            /\ isDetectingType' = TRUE
            /\ calls' = Append(calls, Call("detect", "detect", None))
    /\ lastEvent' = Event("request", "detect", "none")
    /\ UNCHANGED <<inputText, isSummarizing, isExtractingData, results, history,
                   activeTab, storage, now, srvCall, detected>>

\* Mutant: the early return is missing, so the handler runs on into its try
\* block, where reading results.documentType throws and the catch reports it
HandleSummarizeDocumentNoReturn ==
    /\ IF NoDocumentType(results)
       THEN /\ error' = Some(MsgSummarization)
            /\ UNCHANGED <<isSummarizing, calls, runs>>
       ELSE /\ error' = None
            /\ runs' = runs + 1
            /\ isSummarizing' = TRUE
            /\ calls' = Append(calls, Call("summarize", "summarize",
                                           Some(The(The(results).documentType).documentType)))
    /\ lastEvent' = Event("request", "summarize", "none")
    /\ UNCHANGED <<inputText, isDetectingType, isExtractingData, results, history,
                   activeTab, storage, now, srvCall, detected>>

HandleSummarizeDocument ==
    /\ IF NoDocumentType(results)
       THEN /\ error' = Some(MsgDetectFirst)
            /\ UNCHANGED <<isSummarizing, calls, runs>>
       ELSE /\ error' = None
            /\ runs' = runs + 1
            /\ isSummarizing' = TRUE
            /\ calls' = Append(calls, Call("summarize", "summarize",
                                           Some(The(The(results).documentType).documentType)))
    /\ lastEvent' = Event("request", "summarize", "none")
    /\ UNCHANGED <<inputText, isDetectingType, isExtractingData, results, history,
                   activeTab, storage, now, srvCall, detected>>

HandleExtractDocumentData ==
    /\ IF NoDocumentType(results)
       THEN /\ error' = Some(MsgDetectFirst)
            /\ UNCHANGED <<isExtractingData, calls, runs>>
       ELSE /\ error' = None
            /\ runs' = runs + 1
            /\ isExtractingData' = TRUE
            /\ calls' = Append(calls, Call("extract", "extract",
                                           Some(The(The(results).documentType).documentType)))
    /\ lastEvent' = Event("request", "extract", "none")
    /\ UNCHANGED <<inputText, isDetectingType, isSummarizing, results, history,
                   activeTab, storage, now, srvCall, detected>>

HandleProcessAll ==
    /\ IF IsBlank(inputText)
       THEN /\ error' = Some(MsgEnterText)
            /\ UNCHANGED <<isDetectingType, calls, runs>>
       ELSE /\ error' = None
            /\ runs' = runs + 1
            /\ isDetectingType' = TRUE
            /\ calls' = Append(calls, Call("all", "detect", None))
    /\ lastEvent' = Event("request", "all", "none")
    /\ UNCHANGED <<inputText, isSummarizing, isExtractingData, results, history,
                   activeTab, storage, now, srvCall, detected>>

HandleClear ==
    /\ inputText' = EmptyText
    /\ results' = None
    /\ error' = None
    /\ activeTab' = "input"
    /\ lastEvent' = Event("clear", "none", "none")
    /\ UNCHANGED <<isDetectingType, isSummarizing, isExtractingData, history,
                   storage, calls, now, srvCall, detected, runs>>

LoadFromHistory(text) ==
    /\ inputText' = text
    /\ results' = None
    /\ error' = None
    /\ lastEvent' = Event("load", "none", "none")
    /\ UNCHANGED <<isDetectingType, isSummarizing, isExtractingData, history,
                   activeTab, storage, calls, now, srvCall, detected, runs>>

\* onClick={() => setHistory([])}, followed by the save effect
ClearHistory ==
    /\ history' = << >>
    /\ storage' = SaveEffect(history', storage)
    /\ lastEvent' = Event("clearHistory", "none", "none")
    /\ UNCHANGED <<inputText, isDetectingType, isSummarizing, isExtractingData,
                   results, error, activeTab, calls, now, srvCall, detected, runs>>

\* onChange={(e) => setInputText(e.target.value)}
SetInputText(text) ==
    /\ inputText' = text
    /\ lastEvent' = Event("type", "none", "none")
    /\ UNCHANGED <<isDetectingType, isSummarizing, isExtractingData, results, error,
                   history, activeTab, storage, calls, now, srvCall, detected, runs>>

\* onValueChange={setActiveTab} and the "Back to Input" button
SetActiveTab(tab) ==
    /\ activeTab' = tab
    /\ lastEvent' = Event("tab", "none", "none")
    /\ UNCHANGED <<inputText, isDetectingType, isSummarizing, isExtractingData,
                   results, error, history, storage, calls, now, srvCall, detected, runs>>

----------------------------------------------------------------------------
(* Continuations: the code a handler runs when the call it awaits settles. *)
(* i is the position of the suspended handler in calls.                    *)

\* Date.now(): two readings are separated by a remote call, and the clock
\* has moved on between them
ClockReadings == {now + 1}

\* handleDetectDocumentType, lines after the await, then finally
DetectResolved(i) ==
    /\ calls[i].handler = "detect"
    /\ \E r \in DetectDocumentType(calls[i].text).outcomes, t \in ClockReadings :
          /\ r.ok
          /\ results' = Some([Spread(calls[i].cResults) EXCEPT !.documentType = r.value])
          /\ history' = NewHistory(calls[i].text, t, calls[i].cHistory)
          /\ now' = t
          /\ detected' = Some(The(r.value).documentType)
    /\ storage' = SaveEffect(history', storage)
    /\ activeTab' = "results"
    /\ isDetectingType' = FALSE
    /\ calls' = RemoveAt(calls, i)
    /\ lastEvent' = Event("resolved", "detect", "detect")
    /\ UNCHANGED <<inputText, isSummarizing, isExtractingData, error, srvCall, runs>>

\* Mutant: the catch block calls detectDocumentType again instead of giving up
DetectRejectedRetry(i) ==
    /\ calls[i].handler = "detect"
    /\ \E r \in DetectDocumentType(calls[i].text).outcomes : ~r.ok
    /\ error' = Some(MsgDetection)
    /\ lastEvent' = Event("rejected", "detect", "detect")
    /\ UNCHANGED <<inputText, isDetectingType, isSummarizing, isExtractingData, results,
                   history, activeTab, storage, calls, now, srvCall, detected, runs>>

\* handleDetectDocumentType, catch and finally
DetectRejected(i) ==
    /\ calls[i].handler = "detect"
    /\ \E r \in DetectDocumentType(calls[i].text).outcomes : ~r.ok
    /\ error' = Some(MsgDetection)
    /\ isDetectingType' = FALSE
    /\ calls' = RemoveAt(calls, i)
    /\ lastEvent' = Event("rejected", "detect", "detect")
    /\ UNCHANGED <<inputText, isSummarizing, isExtractingData, results, history,
                   activeTab, storage, now, srvCall, detected, runs>>

\* handleSummarizeDocument, lines after the await, then finally
SummarizeResolved(i) ==
    /\ calls[i].handler = "summarize"
    /\ \E r \in SummarizeDocument(calls[i].text, The(calls[i].docType)).outcomes :
          /\ r.ok
          /\ results' = Some([Spread(calls[i].cResults) EXCEPT !.summary = r.value])
    /\ isSummarizing' = FALSE
    /\ calls' = RemoveAt(calls, i)
    /\ lastEvent' = Event("resolved", "summarize", "summarize")
    /\ UNCHANGED <<inputText, isDetectingType, isExtractingData, error, history,
                   activeTab, storage, now, srvCall, detected, runs>>

\* Mutant: the catch block copied from handleExtractDocumentData, message and all
SummarizeRejectedCopied(i) ==
    /\ calls[i].handler = "summarize"
    /\ \E r \in SummarizeDocument(calls[i].text, The(calls[i].docType)).outcomes : ~r.ok
    /\ error' = Some(MsgExtraction)
    /\ isSummarizing' = FALSE
    /\ calls' = RemoveAt(calls, i)
    /\ lastEvent' = Event("rejected", "summarize", "summarize")
    /\ UNCHANGED <<inputText, isDetectingType, isExtractingData, results, history,
                   activeTab, storage, now, srvCall, detected, runs>>

\* handleSummarizeDocument, catch and finally
SummarizeRejected(i) ==
    /\ calls[i].handler = "summarize"
    /\ \E r \in SummarizeDocument(calls[i].text, The(calls[i].docType)).outcomes : ~r.ok
    /\ error' = Some(MsgSummarization)
    /\ isSummarizing' = FALSE
    /\ calls' = RemoveAt(calls, i)
    /\ lastEvent' = Event("rejected", "summarize", "summarize")
    /\ UNCHANGED <<inputText, isDetectingType, isExtractingData, results, history,
                   activeTab, storage, now, srvCall, detected, runs>>

\* handleExtractDocumentData, lines after the await, then finally
ExtractResolved(i) ==
    /\ calls[i].handler = "extract"
    /\ \E r \in ExtractDocumentData(calls[i].text, The(calls[i].docType)).outcomes :
          /\ r.ok
          /\ results' = Some([Spread(calls[i].cResults) EXCEPT !.extractedData = r.value])
    /\ isExtractingData' = FALSE
    /\ calls' = RemoveAt(calls, i)
    /\ lastEvent' = Event("resolved", "extract", "extract")
    /\ UNCHANGED <<inputText, isDetectingType, isSummarizing, error, history,
                   activeTab, storage, now, srvCall, detected, runs>>

\* Mutant: the catch block also discards the results, setResults(null)
ExtractRejectedDiscards(i) ==
    /\ calls[i].handler = "extract"
    /\ \E r \in ExtractDocumentData(calls[i].text, The(calls[i].docType)).outcomes : ~r.ok
    /\ error' = Some(MsgExtraction)
    /\ results' = None
    /\ isExtractingData' = FALSE
    /\ calls' = RemoveAt(calls, i)
    /\ lastEvent' = Event("rejected", "extract", "extract")
    /\ UNCHANGED <<inputText, isDetectingType, isSummarizing, history,
                   activeTab, storage, now, srvCall, detected, runs>>

\* handleExtractDocumentData, catch and finally
ExtractRejected(i) ==
    /\ calls[i].handler = "extract"
    /\ \E r \in ExtractDocumentData(calls[i].text, The(calls[i].docType)).outcomes : ~r.ok
    /\ error' = Some(MsgExtraction)
    /\ isExtractingData' = FALSE
    /\ calls' = RemoveAt(calls, i)
    /\ lastEvent' = Event("rejected", "extract", "extract")
    /\ UNCHANGED <<inputText, isDetectingType, isSummarizing, results, history,
                   activeTab, storage, now, srvCall, detected, runs>>

\* Mutant: steps 2 and 3 in the wrong order, extraction issued after detection
ProcessAllDetectedThenExtract(i) ==
    /\ calls[i].handler = "all" /\ calls[i].stage = "detect"
    /\ \E r \in DetectDocumentType(calls[i].text).outcomes :
          /\ r.ok
          /\ results' = Some([EmptyResults EXCEPT !.documentType = r.value])
          /\ calls' = [calls EXCEPT ![i].stage = "extract",
                                    ![i].docType = Some(The(r.value).documentType)]
          /\ detected' = Some(The(r.value).documentType)
    /\ isDetectingType' = FALSE
    /\ isExtractingData' = TRUE
    /\ lastEvent' = Event("resolved", "all", "detect")
    /\ UNCHANGED <<inputText, isSummarizing, error, history, activeTab, storage,
                   now, srvCall, runs>>

\* Mutant: setIsDetectingType(false) is missing after step 1
ProcessAllDetectedKeepsFlag(i) ==
    /\ calls[i].handler = "all" /\ calls[i].stage = "detect"
    /\ \E r \in DetectDocumentType(calls[i].text).outcomes :
          /\ r.ok
          /\ results' = Some([EmptyResults EXCEPT !.documentType = r.value])
          /\ calls' = [calls EXCEPT ![i].stage = "summarize",
                                    ![i].docType = Some(The(r.value).documentType)]
          /\ detected' = Some(The(r.value).documentType)
    /\ isSummarizing' = TRUE
    /\ lastEvent' = Event("resolved", "all", "detect")
    /\ UNCHANGED <<inputText, isDetectingType, isExtractingData, error, history, activeTab,
                   storage, now, srvCall, runs>>

\* handleProcessAll, step 1 settled: setResults({ documentType }), then the
\* summarizeDocument call of step 2 is issued
ProcessAllDetected(i) ==
    /\ calls[i].handler = "all" /\ calls[i].stage = "detect"
    /\ \E r \in DetectDocumentType(calls[i].text).outcomes :
          /\ r.ok
          /\ results' = Some([EmptyResults EXCEPT !.documentType = r.value])
          /\ calls' = [calls EXCEPT ![i].stage = "summarize",
                                    ![i].docType = Some(The(r.value).documentType)]
          /\ detected' = Some(The(r.value).documentType)
    /\ isDetectingType' = FALSE
    /\ isSummarizing' = TRUE
    /\ lastEvent' = Event("resolved", "all", "detect")
    /\ UNCHANGED <<inputText, isExtractingData, error, history, activeTab, storage,
                   now, srvCall, runs>>

\* Mutant: setIsExtractingData(true) is missing before step 3
ProcessAllSummarizedNoFlag(i) ==
    /\ calls[i].handler = "all" /\ calls[i].stage = "summarize"
    /\ \E r \in SummarizeDocument(calls[i].text, The(calls[i].docType)).outcomes :
          /\ r.ok
          /\ results' = Some([Spread(results) EXCEPT !.summary = r.value])
    /\ calls' = [calls EXCEPT ![i].stage = "extract"]
    /\ isSummarizing' = FALSE
    /\ lastEvent' = Event("resolved", "all", "summarize")
    /\ UNCHANGED <<inputText, isDetectingType, isExtractingData, error, history,
                   activeTab, storage, now, srvCall, detected, runs>>

\* Mutant: step 3 reads the text area again instead of the handler's inputText
ProcessAllSummarizedRereadsText(i) ==
    /\ calls[i].handler = "all" /\ calls[i].stage = "summarize"
    /\ \E r \in SummarizeDocument(calls[i].text, The(calls[i].docType)).outcomes :
          /\ r.ok
          /\ results' = Some([Spread(results) EXCEPT !.summary = r.value])
    /\ calls' = [calls EXCEPT ![i].stage = "extract", ![i].text = inputText]
    /\ isSummarizing' = FALSE
    /\ isExtractingData' = TRUE
    /\ lastEvent' = Event("resolved", "all", "summarize")
    /\ UNCHANGED <<inputText, isDetectingType, error, history, activeTab, storage,
                   now, srvCall, detected, runs>>

\* handleProcessAll, step 2 settled: setResults(prev => ({ ...prev, summary })),
\* then the extractDocumentData call of step 3 is issued
ProcessAllSummarized(i) ==
    /\ calls[i].handler = "all" /\ calls[i].stage = "summarize"
    /\ \E r \in SummarizeDocument(calls[i].text, The(calls[i].docType)).outcomes :
          /\ r.ok
          /\ results' = Some([Spread(results) EXCEPT !.summary = r.value])
    /\ calls' = [calls EXCEPT ![i].stage = "extract"]
    /\ isSummarizing' = FALSE
    /\ isExtractingData' = TRUE
    /\ lastEvent' = Event("resolved", "all", "summarize")
    /\ UNCHANGED <<inputText, isDetectingType, error, history, activeTab, storage,
                   now, srvCall, detected, runs>>

\* handleProcessAll, step 3 settled: setResults(prev => ({ ...prev, extractedData })),
\* the history entry, the tab switch, then finally
ProcessAllExtracted(i) ==
    /\ calls[i].handler = "all" /\ calls[i].stage = "extract"
    /\ \E r \in ExtractDocumentData(calls[i].text, The(calls[i].docType)).outcomes,
          t \in ClockReadings :
          /\ r.ok
          /\ results' = Some([Spread(results) EXCEPT !.extractedData = r.value])
          /\ history' = NewHistory(calls[i].text, t, calls[i].cHistory)
          /\ now' = t
    /\ storage' = SaveEffect(history', storage)
    /\ activeTab' = "results"
    /\ isDetectingType' = FALSE
    /\ isSummarizing' = FALSE
    /\ isExtractingData' = FALSE
    /\ calls' = RemoveAt(calls, i)
    /\ lastEvent' = Event("resolved", "all", "extract")
    /\ UNCHANGED <<inputText, error, srvCall, detected, runs>>

\* The call handleProcessAll awaits at its current step
ProcessAllAwaits(c) ==
    CASE c.stage = "detect" -> DetectDocumentType(c.text)
      [] c.stage = "summarize" -> SummarizeDocument(c.text, The(c.docType))
      [] c.stage = "extract" -> ExtractDocumentData(c.text, The(c.docType))

\* Mutant: the finally block is missing, so a failed run leaves its flag set
ProcessAllRejectedNoFinally(i) ==
    /\ calls[i].handler = "all"
    /\ \E r \in ProcessAllAwaits(calls[i]).outcomes : ~r.ok
    /\ error' = Some(MsgProcessing)
    /\ calls' = RemoveAt(calls, i)
    /\ lastEvent' = Event("rejected", "all", calls[i].stage)
    /\ UNCHANGED <<inputText, isDetectingType, isSummarizing, isExtractingData, results,
                   history, activeTab, storage, now, srvCall, detected, runs>>

\* handleProcessAll, catch and finally: whichever step threw
ProcessAllRejected(i) ==
    /\ calls[i].handler = "all"
    /\ \E r \in ProcessAllAwaits(calls[i]).outcomes : ~r.ok
    /\ error' = Some(MsgProcessing)
    /\ isDetectingType' = FALSE
    /\ isSummarizing' = FALSE
    /\ isExtractingData' = FALSE
    /\ calls' = RemoveAt(calls, i)
    /\ lastEvent' = Event("rejected", "all", calls[i].stage)
    /\ UNCHANGED <<inputText, results, history, activeTab, storage, now, srvCall, detected, runs>>

\* The page is loaded again: the component is mounted afresh from localStorage
\* and the handlers of the old page are gone.
Reload ==
    /\ inputText' = EmptyText
    /\ isDetectingType' = FALSE
    /\ isSummarizing' = FALSE
    /\ isExtractingData' = FALSE
    /\ results' = None
    /\ error' = None
    /\ history' = LoadEffect(storage)
    /\ activeTab' = "input"
    /\ calls' = << >>
    /\ detected' = None
    /\ lastEvent' = Event("mount", "none", "none")
    /\ UNCHANGED <<storage, now, srvCall, runs>>

----------------------------------------------------------------------------
(* The rendered controls: what the user can do in the current render *)

\* <TabsContent value="input"> is mounted only while the input tab is selected
InputTabShown == activeTab = "input"

\* disabled={isDetectingType || isSummarizing || isExtractingData || !inputText.trim()}
DetectEnabled == InputTabShown /\ ~(Loading \/ IsBlank(inputText))

\* disabled={... || !results || !results.documentType}
SummarizeEnabled == InputTabShown /\ ~(Loading \/ NoDocumentType(results))

ExtractEnabled == InputTabShown /\ ~(Loading \/ NoDocumentType(results))

ProcessAllEnabled == InputTabShown /\ ~(Loading \/ IsBlank(inputText))

\* Mutant: the Clear button without the three loading flags
ClearEnabledWhileLoading == InputTabShown /\ ~(inputText = EmptyText /\ results = None)

\* disabled={... || (!inputText && !results)}
ClearEnabled == InputTabShown /\ ~(Loading \/ (inputText = EmptyText /\ results = None))

\* {history.length > 0 && (...)}: the Clear History button and the badges
HistoryShown == InputTabShown /\ Len(history) > 0

ClickDetect == DetectEnabled /\ runs < MaxRuns /\ HandleDetectDocumentType

ClickSummarize == SummarizeEnabled /\ runs < MaxRuns /\ HandleSummarizeDocument

ClickExtract == ExtractEnabled /\ runs < MaxRuns /\ HandleExtractDocumentData

ClickProcessAll == ProcessAllEnabled /\ runs < MaxRuns /\ HandleProcessAll

ClickClear == ClearEnabled /\ HandleClear

ClickClearHistory == HistoryShown /\ ClearHistory

ClickBadge == HistoryShown /\ \E i \in 1..Len(history) : LoadFromHistory(history[i].text)

TypeText == InputTabShown /\ \E t \in TypedTexts : t # inputText /\ SetInputText(t)

\* The Input trigger and "Back to Input"
SelectInputTab == activeTab # "input" /\ SetActiveTab("input")

\* <TabsTrigger value="results" disabled={!results}>
SelectResultsTab == activeTab # "results" /\ results # None /\ SetActiveTab("results")

Next ==
    \/ ClickDetect
    \/ ClickSummarize
    \/ ClickExtract
    \/ ClickProcessAll
    \/ ClickClear
    \/ ClickClearHistory
    \/ ClickBadge
    \/ TypeText
    \/ SelectInputTab
    \/ SelectResultsTab
    \/ \E i \in 1..Len(calls) : DetectResolved(i)
    \/ \E i \in 1..Len(calls) : DetectRejected(i)
    \/ \E i \in 1..Len(calls) : SummarizeResolved(i)
    \/ \E i \in 1..Len(calls) : SummarizeRejected(i)
    \/ \E i \in 1..Len(calls) : ExtractResolved(i)
    \/ \E i \in 1..Len(calls) : ExtractRejected(i)
    \/ \E i \in 1..Len(calls) : ProcessAllDetected(i)
    \/ \E i \in 1..Len(calls) : ProcessAllSummarized(i)
    \/ \E i \in 1..Len(calls) : ProcessAllExtracted(i)
    \/ \E i \in 1..Len(calls) : ProcessAllRejected(i)
    \/ Reload

\* The component driven through its rendered controls
Spec == Init /\ [][Next]_vars

\* A remote call in flight settles: the handler suspended at its await resumes
Settle ==
    \E i \in 1..Len(calls) :
        \/ DetectResolved(i)
        \/ DetectRejected(i)
        \/ SummarizeResolved(i)
        \/ SummarizeRejected(i)
        \/ ExtractResolved(i)
        \/ ExtractRejected(i)
        \/ ProcessAllDetected(i)
        \/ ProcessAllSummarized(i)
        \/ ProcessAllExtracted(i)
        \/ ProcessAllRejected(i)

\* The page opened for the first time, with nothing in localStorage; later
\* mounts, with what the component has stored since, come with Reload
InitLive == Init /\ storage = None

\* The component under the premise that every remote call issued eventually
\* resolves or fails
SpecLive == InitLive /\ [][Next]_vars /\ WF_vars(Settle)

----------------------------------------------------------------------------------------------------------------------------------------
(* The handlers invoked directly, as functions of the component, whatever  *)
(* the rendered controls allow: only a handler's own checks stand between  *)
(* a request and a remote call.  The component starts mounted, or with a   *)
(* classification already held for ShortText.                              *)

ClassifiedResults ==
    {Some([EmptyResults EXCEPT !.documentType =
              Some([documentType |-> c, text |-> ShortText])]) : c \in Categories}

InitHandlers ==
    /\ \E item \in InitialStorage : history = LoadEffect(item) /\ storage = item
    /\ inputText \in TypedTexts
    /\ results \in {None} \cup ClassifiedResults
    /\ isDetectingType = FALSE
    /\ isSummarizing = FALSE
    /\ isExtractingData = FALSE
    /\ error = None
    /\ activeTab = "input"
    /\ calls = << >>
    /\ now = 0
    /\ runs = 0
    /\ lastEvent = Event("mount", "none", "none")
    /\ srvCall = NoServerCall
    /\ detected = {d.documentType : d \in Spread(results).documentType}

CanSuspend == Len(calls) < MaxCalls /\ runs < MaxDirectRuns

InvokeDetect == (IF IsBlank(inputText) THEN TRUE ELSE CanSuspend) /\ HandleDetectDocumentType

InvokeSummarize == (IF NoDocumentType(results) THEN TRUE ELSE CanSuspend) /\ HandleSummarizeDocument

InvokeExtract == (IF NoDocumentType(results) THEN TRUE ELSE CanSuspend) /\ HandleExtractDocumentData

InvokeProcessAll == (IF IsBlank(inputText) THEN TRUE ELSE CanSuspend) /\ HandleProcessAll

InvokeLoadFromHistory == \E i \in 1..Len(history) : LoadFromHistory(history[i].text)

InvokeSetInputText == \E t \in TypedTexts : t # inputText /\ SetInputText(t)

NextHandlers ==
    \/ InvokeDetect
    \/ InvokeSummarize
    \/ InvokeExtract
    \/ InvokeProcessAll
    \/ HandleClear
    \/ InvokeLoadFromHistory
    \/ InvokeSetInputText
    \/ \E i \in 1..Len(calls) : DetectResolved(i)
    \/ \E i \in 1..Len(calls) : DetectRejected(i)
    \/ \E i \in 1..Len(calls) : SummarizeResolved(i)
    \/ \E i \in 1..Len(calls) : SummarizeRejected(i)
    \/ \E i \in 1..Len(calls) : ExtractResolved(i)
    \/ \E i \in 1..Len(calls) : ExtractRejected(i)
    \/ \E i \in 1..Len(calls) : ProcessAllDetected(i)
    \/ \E i \in 1..Len(calls) : ProcessAllSummarized(i)
    \/ \E i \in 1..Len(calls) : ProcessAllExtracted(i)
    \/ \E i \in 1..Len(calls) : ProcessAllRejected(i)

SpecHandlers == InitHandlers /\ [][NextHandlers]_vars

----------------------------------------------------------------------------
(* The handlers that write the history, invoked on texts shorter than, as  *)
(* long as and longer than the truncation length.                          *)

InitTexts ==
    /\ \E item \in InitialStorage : history = LoadEffect(item) /\ storage = item
    /\ inputText \in SubmittedTexts
    /\ results = None
    /\ isDetectingType = FALSE
    /\ isSummarizing = FALSE
    /\ isExtractingData = FALSE
    /\ error = None
    /\ activeTab = "input"
    /\ calls = << >>
    /\ now = 0
    /\ runs = 0
    /\ lastEvent = Event("mount", "none", "none")
    /\ srvCall = NoServerCall
    /\ detected = None

NextTexts ==
    \/ InvokeDetect
    \/ InvokeProcessAll
    \/ InvokeLoadFromHistory
    \/ \E i \in 1..Len(calls) : DetectResolved(i)
    \/ \E i \in 1..Len(calls) : DetectRejected(i)
    \/ \E i \in 1..Len(calls) : ProcessAllDetected(i)
    \/ \E i \in 1..Len(calls) : ProcessAllSummarized(i)
    \/ \E i \in 1..Len(calls) : ProcessAllExtracted(i)
    \/ \E i \in 1..Len(calls) : ProcessAllRejected(i)

SpecTexts == InitTexts /\ [][NextTexts]_vars

----------------
(* The server functions called on their own, with any text and any         *)
(* documentType string.                                                    *)

ServerCall(fn, text, documentType, run) ==
    /\ \E r \in run.outcomes :
          srvCall' = [fn |-> fn, text |-> text, documentType |-> documentType,
                      invoked |-> run.invoked, result |-> r]
    /\ UNCHANGED clientVars

CallDetectDocumentType ==
    \E text \in TypedTexts : ServerCall("detectDocumentType", text, "", DetectDocumentType(text))

CallSummarizeDocument ==
    \E text \in TypedTexts, d \in DocumentTypeInputs :
        ServerCall("summarizeDocument", text, d, SummarizeDocument(text, d))

CallExtractDocumentData ==
    \E text \in TypedTexts, d \in DocumentTypeInputs :
        ServerCall("extractDocumentData", text, d, ExtractDocumentData(text, d))

NextServer ==
    \/ CallDetectDocumentType
    \/ CallSummarizeDocument
    \/ CallExtractDocumentData

SpecServer == Init /\ [][NextServer]_vars

----------------------------------------------------------------------------
(* Properties *)

Flags == <<isDetectingType, isSummarizing, isExtractingData>>

Requested(handler) == Event("request", handler, "none")

\* C1: a summarize or extract request made while the session holds no
\* classification sets the message "Please detect document type first",
\* issues no remote call and sets no loading flag.
C1_RejectedWithoutClassification ==
    [][(/\ (results = None \/ \A r \in results : r.documentType = None)
        /\ lastEvent' \in {Requested("summarize"), Requested("extract")})
       => (/\ error' = Some("Please detect document type first")
           /\ calls' = calls
           /\ Flags' = Flags)]_vars

C1_Witness ==
    /\ lastEvent \in {Requested("summarize"), Requested("extract")}
    /\ results = None
    /\ error = Some("Please detect document type first")
    /\ calls = << >>

\* C4: with an empty or whitespace-only input text, a detect request and a
\* process-all request set the message "Please enter some text to analyze",
\* issue no remote call and leave results, history and loading flags as
\* they were.
C4_BlankInputRejected ==
    [][(/\ inputText \in {EmptyText, BlankText}
        /\ lastEvent' \in {Requested("detect"), Requested("all")})
       => (/\ error' = Some("Please enter some text to analyze")
           /\ calls' = calls
           /\ results' = results
           /\ history' = history
           /\ Flags' = Flags)]_vars

C4_Witness ==
    /\ lastEvent \in {Requested("detect"), Requested("all")}
    /\ inputText = BlankText
    /\ error = Some("Please enter some text to analyze")
    /\ calls = << >>

\* C2: extractDocumentData called with a documentType other than "invoice",
\* "deliveryNote" or "receipt" fails with the unsupported-type error and
\* invokes no extraction chain.
C2_UnsupportedCategoryFails ==
    (/\ srvCall.fn = "extractDocumentData"
     /\ srvCall.documentType \notin {"invoice", "deliveryNote", "receipt"})
    => (/\ ~srvCall.result.ok
        /\ srvCall.result.err = "Unsupported document type"
        /\ srvCall.invoked = << >>)

C2_Witness ==
    /\ srvCall.fn = "extractDocumentData"
    /\ srvCall.documentType = "Invoice"
    /\ srvCall.result = Thrown("Unsupported document type")

\* C3: for each of the three category values extractDocumentData invokes
\* exactly one extraction chain, the one bound to that category's schema, and
\* a record it returns carries that category's documentType literal.
C3_CategorySelectsItsSchema ==
    \A p \in {<<"invoice", "InvoiceSchema">>,
              <<"deliveryNote", "DeliveryNoteSchema">>,
              <<"receipt", "ReceiptSchema">>} :
        (srvCall.fn = "extractDocumentData" /\ srvCall.documentType = p[1])
        => (/\ Len(srvCall.invoked) = 1
            /\ ChainSchema(srvCall.invoked[1]) = p[2]
            /\ \A v \in srvCall.result.value : v.documentType = p[1])

C3_Witness ==
    /\ srvCall.fn = "extractDocumentData"
    /\ srvCall.documentType = "receipt"
    /\ srvCall.invoked = <<"receiptExtractionChain">>
    /\ srvCall.result.ok

\* A step that wrote a history entry: a single-stage detection or the last
\* step of a process-all run has settled successfully
WroteHistory(e) == e \in {Event("resolved", "detect", "detect"), Event("resolved", "all", "extract")}

MostRecentFirst(h) ==
    \A i, j \in 1..Len(h) : i < j => h[i].timestamp >= h[j].timestamp

\* C5: the history list never holds more than 5 entries and is ordered
\* most-recent-first; the entry of the run that has just succeeded is at
\* index 0, and adding to a list of 5 drops the last entry and keeps the
\* other four in order.
C5_HistoryBounded ==
    /\ [](Len(history) <= 5 /\ MostRecentFirst(history))
    /\ [][WroteHistory(lastEvent')
          => (/\ Len(calls) = 1
              /\ Len(history') >= 1
              /\ history'[1].text = HistoryText(calls[1].text)
              /\ \A k \in 2..Len(history') : history'[1].timestamp >= history'[k].timestamp
              /\ Len(history) = 5 => history' = <<history'[1]>> \o SubSeq(history, 1, 4))]_vars

C5_Witness ==
    /\ WroteHistory(lastEvent)
    /\ Len(history) = 5
    /\ history[1].text = ShortText
    /\ SubSeq(history, 2, 5) = SubSeq(StoredHistory, 1, 4)

\* C6: clearing the session leaves results, error message and input text
\* absent, no loading flag set and no call pending, whatever the session
\* held before.
C6_ClearResets ==
    [][lastEvent' = Event("clear", "none", "none")
       => (/\ results' = None
           /\ error' = None
           /\ inputText' = EmptyText
           /\ Flags' = <<FALSE, FALSE, FALSE>>
           /\ calls' = << >>)]_vars

C6_Witness ==
    /\ lastEvent = Event("clear", "none", "none")
    /\ results = None
    /\ runs > 0

\* C7: in a process-all run the detect call is issued by the request, the
\* summarize call only by the step in which detect returned successfully,
\* the extract call only by the step in which summarize returned
\* successfully, and a failure of a stage ends the run with no further call.
C7_ProcessAllInOrder ==
    [][/\ \A i \in 1..Len(calls') :
            (calls'[i].handler = "all" /\ (i > Len(calls) \/ calls'[i] # calls[i]))
            => /\ i <= Len(calls) => calls[i].handler = "all"
               /\ calls'[i].stage = "detect"
                    => (i > Len(calls) /\ lastEvent' = Requested("all"))
               /\ calls'[i].stage = "summarize"
                    => (/\ i <= Len(calls)
                        /\ calls[i].stage = "detect"
                        /\ lastEvent' = Event("resolved", "all", "detect"))
               /\ calls'[i].stage = "extract"
                    => (/\ i <= Len(calls)
                        /\ calls[i].stage = "summarize"
                        /\ lastEvent' = Event("resolved", "all", "summarize"))
       /\ (lastEvent'.op = "rejected" /\ lastEvent'.handler = "all")
            => (calls' = << >> /\ Flags' = <<FALSE, FALSE, FALSE>>)]_vars

C7_Witness ==
    /\ Len(calls) = 1
    /\ calls[1].handler = "all"
    /\ calls[1].stage = "extract"
    /\ lastEvent = Event("resolved", "all", "summarize")

\* C8: at most one remote call is outstanding, and while one is, the detect,
\* summarize, extract, process-all and clear controls are all disabled.
C8_OneCallAtATime ==
    /\ Len(calls) <= 1
    /\ Len(calls) = 1
         => ~(DetectEnabled \/ SummarizeEnabled \/ ExtractEnabled
              \/ ProcessAllEnabled \/ ClearEnabled)

C8_Witness ==
    /\ Len(calls) = 1
    /\ calls[1].stage = "extract"
    /\ activeTab = "input"
    /\ inputText = ShortText
    /\ ~NoDocumentType(results)

StageMessage(stage) ==
    CASE stage = "detect" -> "An error occurred during document type detection. Please try again."
      [] stage = "summarize" -> "An error occurred during document summarization. Please try again."
      [] stage = "extract" -> "An error occurred during data extraction. Please try again."

\* C9 as stated: whenever a remote call fails, in single-stage mode or in a
\* process-all run, the message shown is the one of the stage that failed.
C9_StageMessageAlways ==
    [][lastEvent'.op = "rejected" => error' = Some(StageMessage(lastEvent'.stage))]_vars

\* C9 as amended: a failed single-stage call shows the message of its stage;
\* a failed call of a process-all run shows the document-processing message,
\* whichever stage failed.
C9_MessagePerAction ==
    [][lastEvent'.op = "rejected"
       => error' = Some(IF lastEvent'.handler = "all"
                        THEN "An error occurred during document processing. Please try again."
                        ELSE StageMessage(lastEvent'.stage))]_vars

C9_Witness ==
    /\ lastEvent = Event("rejected", "all", "summarize")
    /\ error = Some("An error occurred during document processing. Please try again.")

\* C10 as stated: by the end of a run whose detection completed successfully,
\* whatever happened to the stages after it, an entry has been written: the
\* list is not empty and is not the list the run started from.
C10_EntryForEveryDetection ==
    [][\A i \in 1..Len(calls) :
          (/\ calls[i].stage # "detect"
           /\ calls[i].handler = "all"
           /\ lastEvent'.op \in {"resolved", "rejected"}
           /\ calls' = RemoveAt(calls, i))
          => (Len(history') > 0 /\ history' # calls[i].cHistory)]_vars

\* The values a session holds: classification, summary and record
Held(r) == r.documentType \cup r.summary \cup r.extractedData

\* C11 as stated: a step that replaces the input text, by typing or by
\* loading a history entry, leaves the session without classification,
\* summary and record, and whatever the session holds was produced from the
\* current input text.
C11_NewInputResetsResults ==
    /\ [][lastEvent'.op \in {"type", "load"} => results' = None]_vars
    /\ [](\A r \in results : \A v \in Held(r) : v.text = inputText)

\* C12 as stated: once the session holds a classification for the current
\* input text, every step that neither changes the input text nor resets the
\* session leaves that classification stored as it is.
C12_ClassificationImmutable ==
    [][\A r \in results : \A d \in r.documentType :
          (/\ d.text = inputText
           /\ inputText' = inputText
           /\ lastEvent'.op \notin {"clear", "load", "mount"})
          => (results' # None /\ \A r2 \in results' : r2.documentType = Some(d))]_vars

StageRank(stage) ==
    CASE stage = "detect" -> 1
      [] stage = "summarize" -> 2
      [] stage = "extract" -> 3

\* C13: a remote call is issued only by an accepted request (one new call)
\* or by a process-all run moving on to its next stage after the previous one
\* resolved, so a run issues each stage at most once; the step in which a
\* call fails ends its run and issues no call.
C13_NoRetry ==
    [][/\ Len(calls') <= Len(calls) + 1
       /\ Len(calls') > Len(calls)
            => (lastEvent'.op = "request" /\ SubSeq(calls', 1, Len(calls)) = calls)
       /\ \A i \in 1..Len(calls) :
            (Len(calls') >= Len(calls) /\ calls'[i] # calls[i])
            => (/\ calls[i].handler = "all"
                /\ lastEvent'.op = "resolved"
                /\ StageRank(calls'[i].stage) = StageRank(calls[i].stage) + 1)
       /\ lastEvent'.op = "rejected"
            => \E i \in 1..Len(calls) : calls' = RemoveAt(calls, i)]_vars

C13_Witness ==
    /\ lastEvent = Event("rejected", "detect", "detect")
    /\ error = Some("An error occurred during document type detection. Please try again.")
    /\ calls = << >>
    /\ Flags = <<FALSE, FALSE, FALSE>>

\* C14: if every remote call issued eventually resolves or fails, then from
\* every state with a call pending or a loading flag set the component comes
\* back to a state with the three flags false and no call pending; and a
\* detect or process-all request made on non-blank input with the flags false
\* is accepted: it issues a call and clears the error message.
C14_Recoverable ==
    /\ (Loading \/ Len(calls) > 0) ~> (Flags = <<FALSE, FALSE, FALSE>> /\ calls = << >>)
    /\ [][(/\ Flags = <<FALSE, FALSE, FALSE>>
           /\ ~IsBlank(inputText)
           /\ lastEvent' \in {Requested("detect"), Requested("all")})
          => (error' = None /\ Len(calls') = Len(calls) + 1)]_vars

C14_Witness ==
    /\ lastEvent.op = "rejected"
    /\ error # None
    /\ Flags = <<FALSE, FALSE, FALSE>>
    /\ calls = << >>
    /\ ~IsBlank(inputText)
    /\ DetectEnabled
    /\ ProcessAllEnabled
    /\ runs = 1

\* C15: the text of the history entry written for a submitted input is the
\* input itself when it has 100 characters or fewer, and its first 100
\* characters followed by "..." when it has more.
C15_HistoryTextTruncated ==
    [][WroteHistory(lastEvent')
       => \E i \in 1..Len(calls) :
             /\ calls' = RemoveAt(calls, i)
             /\ Len(calls[i].text) <= 100 => history'[1].text = calls[i].text
             /\ Len(calls[i].text) > 100
                  => (/\ Len(history'[1].text) = 103
                      /\ \A k \in 1..100 : history'[1].text[k] = calls[i].text[k]
                      /\ \A k \in 101..103 : history'[1].text[k] = ".")]_vars

C15_Witness ==
    /\ WroteHistory(lastEvent)
    /\ inputText = LongText
    /\ Len(history[1].text) = 103
    /\ SubSeq(history[1].text, 101, 103) = <<".", ".", ".">>

\* C16: a summarize or extract call is issued with the category returned by
\* the last detection that resolved, and the calls of a process-all run all
\* carry the text that was in the text area when the run was requested.
C16_CallsFollowDetection ==
    [][Len(calls') >= Len(calls)
       => \A i \in 1..Len(calls') :
             /\ (/\ calls'[i].stage \in {"summarize", "extract"}
                 /\ IF i > Len(calls) THEN TRUE ELSE calls'[i].stage # calls[i].stage)
                  => (detected' # None /\ calls'[i].docType = detected')
             /\ calls'[i].handler = "all"
                  => calls'[i].text = (IF i > Len(calls) THEN inputText ELSE calls[i].text)]_vars

C16_Witness ==
    /\ Len(calls) = 1
    /\ calls[1].handler = "all"
    /\ calls[1].stage = "extract"
    /\ calls[1].text = ShortText
    /\ inputText = OtherText
    /\ calls[1].docType = detected
    /\ detected = Some("receipt")

\* The loading flag of a stage
StageFlag(stage) ==
    CASE stage = "detect" -> isDetectingType
      [] stage = "summarize" -> isSummarizing
      [] stage = "extract" -> isExtractingData

\* C17: a single-stage action whose call fails leaves results, input text and
\* history as they were: neither its request step nor its failure step
\* changes them, and the failure step changes nothing but the error message
\* and the loading flag of its stage.
C17_FailureFrame ==
    [][/\ (lastEvent'.op = "request" /\ lastEvent'.handler # "all")
            => (results' = results /\ inputText' = inputText /\ history' = history)
       /\ (lastEvent'.op = "rejected" /\ lastEvent'.handler # "all")
            => (/\ results' = results
                /\ inputText' = inputText
                /\ history' = history
                /\ storage' = storage
                /\ activeTab' = activeTab
                /\ error' # None
                /\ \A st \in {"detect", "summarize", "extract"} :
                      IF st = lastEvent'.stage
                      THEN StageFlag(st) /\ ~StageFlag(st)'
                      ELSE StageFlag(st)' = StageFlag(st))]_vars

C17_Witness ==
    /\ lastEvent = Event("rejected", "extract", "extract")
    /\ error = Some("An error occurred during data extraction. Please try again.")
    /\ ~NoDocumentType(results)
    /\ inputText = ShortText
    /\ Len(history) > 0
    /\ ~isExtractingData

\* C18 as stated: when the last call of a process-all run resolves, the
\* session holds a classification, a summary and a record, each of them the
\* one this run obtained for its text and its detected category.
C18_ProcessAllResultComplete ==
    [][lastEvent' = Event("resolved", "all", "extract")
       => \E i \in 1..Len(calls) :
             /\ calls' = RemoveAt(calls, i)
             /\ results' # None
             /\ \A r \in results' :
                   \A field \in {r.documentType, r.summary, r.extractedData} :
                       /\ field # None
                       /\ \A v \in field :
                             v.text = calls[i].text /\ Some(v.documentType) = calls[i].docType]_vars

\* C19 as stated: whenever the session holds a classification and a record,
\* the record's documentType is the classification's category; and a step
\* that changes the stored category does not keep the summary held before.
C19_ResultsMatchCategory ==
    /\ [](\A r \in results : \A d \in r.documentType : \A x \in r.extractedData :
             x.documentType = d.documentType)
    /\ [][\A r \in results, r2 \in results' :
             \A d \in r.documentType, d2 \in r2.documentType :
                 (d2.documentType # d.documentType /\ r.summary # None)
                 => r2.summary # r.summary]_vars

\* C20 as stated: a call that was pending when a history entry was loaded
\* writes nothing into the reset session: when it settles right after the
\* load, the session still holds no classification, summary or record.
C20_PendingCallSkipsResetSession ==
    [][(/\ lastEvent.op = "load"
        /\ Len(calls) > 0
        /\ lastEvent'.op \in {"resolved", "rejected"})
       => results' = None]_vars

\* C21 as stated: entries removed by Clear History do not come back: when a
\* detection completes right after Clear History, also one that was pending
\* when the button was pressed, the list holds the entry of that detection
\* and nothing else.
C21_ClearedEntriesStayRemoved ==
    [][(lastEvent.op = "clearHistory" /\ WroteHistory(lastEvent'))
       => Len(history') = 1]_vars

\* C22 as stated: after every step that changes the in-memory history list,
\* what is stored under the storage key is that list: loading the page again
\* would restore exactly it, the empty list after Clear History included.
C22_StorageEqualsHistory ==
    [][history' # history
       => (IF storage' = None
           THEN history' = << >>
           ELSE /\ Len(The(storage')) = Len(history')
                /\ \A k \in 1..Len(history') :
                      The(storage')[k] = <<history'[k].text, history'[k].timestamp>>)]_vars

\* C23: at most one of the three loading flags is true; the flag of a stage
\* is true exactly while a call of that stage is pending; and with no call
\* pending all three are false, also after a process-all run has failed.
C23_FlagsFollowCalls ==
    /\ Cardinality({st \in {"detect", "summarize", "extract"} : StageFlag(st)}) <= 1
    /\ \A st \in {"detect", "summarize", "extract"} :
          StageFlag(st) <=> (\E i \in 1..Len(calls) : calls[i].stage = st)
    /\ calls = << >> => (~isDetectingType /\ ~isSummarizing /\ ~isExtractingData)

C23_Witness ==
    /\ lastEvent = Event("rejected", "all", "extract")
    /\ calls = << >>
    /\ ~isDetectingType /\ ~isSummarizing /\ ~isExtractingData
    /\ ~NoDocumentType(results)

====
